---- MODULE Spec2Model ----
(***************************************************************************)
(* The Run/Task execution state machine of scanpipe (scanpipe/models.py):  *)
(* the derived status, the task lifecycle recorder, the sequencing gate,   *)
(* the job/run reconciler and the stop/delete controller, next to the RQ   *)
(* job registry they talk to.                                              *)
(***************************************************************************)
EXTENDS Integers, Sequences, FiniteSets, TLC

\* ------------------------------------------------------------------ bounds
\* Runs created in the project by add_pipeline.
MaxRuns == 3
\* Entries appended to the logs of the project's Runs.
MaxLog == 1
\* Calls made directly on the recorder API (outside start, stop_task,
\* sync_with_job and the worker).
MaxDirect == 1
\* Characters of a message passed to append_to_log.
MaxMessage == 3
\* Clock ticks in one second, where a derived duration is read.
TicksPerSecond == 2
\* Latest reading of the clock at which a held instance is still started.
MaxClock == 4

\* ------------------------------------------------------- program constants
STALE_EXITCODE == 88
STOPPED_EXITCODE == 99
FAILED_EXITCODE == 1

\* ------------------------------------------------------------ value domains
\* A nullable column: None is the empty tuple, a value v is <<v>>.
None == <<>>
Some(v) == <<v>>
IsSet(x) == x # None

\* Python truthiness of a nullable integer: None and 0 are falsy.
Truthy(x) == x # None /\ x[1] # 0

\* rq.job.JobStatus, and the absence of the job from every registry.
JobStatus ==
    [QUEUED |-> "queued", FINISHED |-> "finished", FAILED |-> "failed",
     STARTED |-> "started", STOPPED |-> "stopped", CANCELED |-> "canceled"]
JobStatuses ==
    {JobStatus.QUEUED, JobStatus.FINISHED, JobStatus.FAILED,
     JobStatus.STARTED, JobStatus.STOPPED, JobStatus.CANCELED}
NoJob == "None"

\* Texts written to task_output.
FailedRegistryOutput == "Job was moved to the FailedJobRegistry during cleanup"
KilledOutput == "Killed from outside, latest_result"
TracebackOutput == "Traceback"

\* Exceptions a call may end with.
NoExc == "none"
RunNotAllowedToStart == "RunNotAllowedToStart"
ValueError == "ValueError"
ConnectionError == "redis.exceptions.ConnectionError"
Http404 == "Http404"
RunInProgressError == "RunInProgressError"

\* What Pipeline.execute() returns: (exitcode, output).
BodyOutcomes == {<<0, "">>, <<FAILED_EXITCODE, TracebackOutput>>}

\* One character of a log message; a word stands for a run of other characters.
StopMessage == <<"Stop task requested">>

\* ------------------------------------------------------------------- state
VARIABLES
    runs,     \* the scanpipe_run table of one project: sequence of rows, by pk
    jobs,     \* the RQ registries: job id (the Run pk) -> JobStatus or NoJob
    async,    \* settings.SCANCODEIO_ASYNC
    redis,    \* TRUE when the Redis server of the queue answers
    last,     \* the last call made and how it ended
    direct,   \* number of direct recorder calls made so far
    project,  \* the scanpipe_project row, its work directories and objects
    loaded    \* the Run instance each other process holds in memory

vars == <<runs, jobs, async, redis, last, direct, project, loaded>>

\* The Status choices of AbstractTaskFieldsModel.
Status ==
    [NOT_STARTED |-> "not_started", QUEUED |-> "queued", RUNNING |-> "running",
     SUCCESS |-> "success", FAILURE |-> "failure", STOPPED |-> "stopped",
     STALE |-> "stale"]

\* A Run row as created by Run.objects.create(): every task field null.
NewRun(pk) ==
    [pk |-> pk, created_date |-> pk, deleted |-> FALSE,
     task_id |-> None, task_start_date |-> None, task_end_date |-> None,
     task_exitcode |-> None, task_output |-> "", log |-> <<>>]

\* ---------------------------------------------------------- status deriver
task_succeeded(self) == self.task_exitcode = Some(0)

task_failed(self) == Truthy(self.task_exitcode) /\ self.task_exitcode[1] > 0

task_stopped(self) == self.task_exitcode = Some(STOPPED_EXITCODE)

task_staled(self) == self.task_exitcode = Some(STALE_EXITCODE)

BadStatusOrder(self) ==
    IF task_succeeded(self) THEN Status.SUCCESS
    ELSE IF task_failed(self) THEN Status.FAILURE
    ELSE IF task_staled(self) THEN Status.STALE
    ELSE IF task_stopped(self) THEN Status.STOPPED
    ELSE IF IsSet(self.task_id) THEN Status.QUEUED
    ELSE IF IsSet(self.task_start_date) THEN Status.RUNNING
    ELSE Status.NOT_STARTED

status(self) ==
    IF task_succeeded(self) THEN Status.SUCCESS
    ELSE IF task_staled(self) THEN Status.STALE
    ELSE IF task_stopped(self) THEN Status.STOPPED
    ELSE IF task_failed(self) THEN Status.FAILURE
    ELSE IF IsSet(self.task_start_date) THEN Status.RUNNING
    ELSE IF IsSet(self.task_id) THEN Status.QUEUED
    ELSE Status.NOT_STARTED

\* ------------------------------------------------------- a call in progress
\* self: the instance the caller holds; db, jobs: the table and the registries
\* as the call has left them so far; exc: the exception it raised; enq: the
\* number of times it handed a Run to the queue or to the inline executor; js:
\* the job status it read; body, kill: what the pipeline body returns and
\* whether a worker obeys the stop command, should the call get there.
Ctx(self, body, kill) ==
    [self |-> self, db |-> runs, jobs |-> jobs, exc |-> NoExc, enq |-> 0,
     js |-> "unread", body |-> body, kill |-> kill]

Raise(c, e) == [c EXCEPT !.exc = e]

SaveWholeRow(c, update_fields) == [c EXCEPT !.db[c.self.pk] = c.self]

\* Model.save(update_fields=...): an UPDATE of these columns of the row.
save(c, update_fields) ==
    [c EXCEPT !.db[c.self.pk] =
        [f \in DOMAIN @ |-> IF f \in update_fields THEN c.self[f] ELSE @[f]]]

\* ------------------------------------------------ task lifecycle recorder
\* The dates recorded on a Run, in the row or on the instance.
RecordedDates(c) ==
    LET row == c.db[c.self.pk]
    IN  {d[1] : d \in {row.task_start_date, row.task_end_date,
                       c.self.task_start_date, c.self.task_end_date} \ {None}}

\* timezone.now(): the clock only moves forward, so the date read is later
\* than every date recorded on the Run before. Dates of different Runs are
\* not compared by the program, and only the order of the dates of one Run
\* is kept.
timezone_now(c) ==
    LET dates == RecordedDates(c)
    IN  IF dates = {} THEN 1
        ELSE 1 + CHOOSE d \in dates : \A e \in dates : e <= d

ResetKeepsExitcode(c) ==
    save([c EXCEPT !.self.task_id = None,
                   !.self.task_start_date = None,
                   !.self.task_end_date = None,
                   !.self.task_output = ""],
         {"task_id", "task_start_date", "task_end_date", "task_output"})

reset_task_values(c) ==
    save([c EXCEPT !.self.task_id = None,
                   !.self.task_start_date = None,
                   !.self.task_end_date = None,
                   !.self.task_exitcode = None,
                   !.self.task_output = ""],
         {"task_id", "task_start_date", "task_end_date", "task_exitcode",
          "task_output"})

StartedWithoutTaskId(c, task_id) ==
    save([c EXCEPT !.self.task_start_date = Some(timezone_now(c))],
         {"task_start_date"})

set_task_started(c, task_id) ==
    save([c EXCEPT !.self.task_id = Some(task_id),
                   !.self.task_start_date = Some(timezone_now(c))],
         {"task_id", "task_start_date"})

EndedWithoutDate(c, exitcode, output) ==
    save([c EXCEPT !.self.task_exitcode = Some(exitcode),
                   !.self.task_output = output],
         {"task_exitcode", "task_output"})

set_task_ended(c, exitcode, output) ==
    save([c EXCEPT !.self.task_exitcode = Some(exitcode),
                   !.self.task_output = output,
                   !.self.task_end_date = Some(timezone_now(c))],
         {"task_exitcode", "task_output", "task_end_date"})

QueuedWithoutGuard(c) ==
    save([c EXCEPT !.self.task_id = Some(c.self.pk)], {"task_id"})

QueuedClearsStartDate(c) ==
    IF IsSet(c.self.task_id)
    THEN Raise(c, ValueError)
    ELSE save([c EXCEPT !.self.task_id = Some(c.self.pk),
                        !.self.task_start_date = None],
              {"task_id", "task_start_date"})

set_task_queued(c) ==
    IF IsSet(c.self.task_id)
    THEN Raise(c, ValueError)
    ELSE save([c EXCEPT !.self.task_id = Some(c.self.pk)], {"task_id"})

StaledAsStopped(c) == set_task_ended(c, STOPPED_EXITCODE, "")

set_task_staled(c) == set_task_ended(c, STALE_EXITCODE, "")

set_task_stopped(c) == set_task_ended(c, STOPPED_EXITCODE, "")

\* str.strip(): the message without its leading and trailing whitespace.
Whitespace == {" ", "\n", "\r"}

strip(message) ==
    LET inner == {i \in 1..Len(message) : message[i] \notin Whitespace}
    IN  IF inner = {} THEN <<>>
        ELSE LET first == CHOOSE i \in inner : \A j \in inner : i <= j
                 final == CHOOSE i \in inner : \A j \in inner : j <= i
             IN  SubSeq(message, first, final)

AppendUnstripped(c, message) ==
    IF \E i \in 1..Len(message) : message[i] \in {"\n", "\r"}
    THEN Raise(c, ValueError)
    ELSE save([c EXCEPT !.self.log = @ \o message \o <<"\n">>], {"log"})

append_to_log(c, message) ==
    LET stripped == strip(message)
    IN  IF \E i \in 1..Len(stripped) : stripped[i] \in {"\n", "\r"}
        THEN Raise(c, ValueError)
        ELSE save([c EXCEPT !.self.log = @ \o stripped \o <<"\n">>], {"log"})

\* --------------------------------------------------------- the job of a Run
\* Job.fetch(str(self.task_id)): NoSuchJobError is suppressed and gives None.
job(c) ==
    IF IsSet(c.self.task_id) /\ c.self.task_id[1] \in DOMAIN c.jobs
    THEN c.jobs[c.self.task_id[1]]
    ELSE NoJob

job_status(c) == job(c)

\* rq.command.send_stop_job_command: a worker executing the job stops it when
\* it still obeys commands; any other job is left as it is.
send_stop_job_command(c, job_id) ==
    IF job_id \in DOMAIN c.jobs /\ c.jobs[job_id] = JobStatus.STARTED /\ c.kill
    THEN [c EXCEPT !.jobs[job_id] = JobStatus.STOPPED]
    ELSE c

\* ------------------------------------------------------------ stop a task
StopIgnoresLostJob(c) ==
    LET c1 == append_to_log(c, StopMessage)
    IN  IF c1.exc # NoExc THEN c1
        ELSE IF ~async THEN set_task_stopped(c1)
        ELSE IF ~redis THEN Raise(c1, ConnectionError)
        ELSE LET c2 == [c1 EXCEPT !.js = job_status(c1)]
             IN  IF c2.js = JobStatus.FAILED
                 THEN set_task_ended(c2, FAILED_EXITCODE, KilledOutput)
                 ELSE set_task_stopped(c2)

stop_task(c) ==
    LET c1 == append_to_log(c, StopMessage)
    IN  IF c1.exc # NoExc THEN c1
        ELSE IF ~async THEN set_task_stopped(c1)
        ELSE IF ~redis THEN Raise(c1, ConnectionError)
        ELSE LET c2 == [c1 EXCEPT !.js = job_status(c1)]
             IN  IF c2.js = NoJob THEN set_task_staled(c2)
                 ELSE IF c2.js = JobStatus.FAILED
                 THEN set_task_ended(c2, FAILED_EXITCODE, KilledOutput)
                 ELSE set_task_stopped(
                          send_stop_job_command(c2, c2.self.task_id[1]))

\* -------------------------------------------------------- sequencing gate
\* project.runs: the rows of the project that were not deleted.
project_runs(c) == {c.db[i] : i \in {j \in DOMAIN c.db : ~c.db[j].deleted}}

PreviousRunsOrSelf(c) ==
    {r \in project_runs(c) : r.created_date <= c.self.created_date}

get_previous_runs(c) ==
    {r \in project_runs(c) : r.created_date < c.self.created_date}

\* RunQuerySet.not_executed()
not_executed(qs) == {r \in qs : ~IsSet(r.task_end_date)}

has_start_date(qs) == {r \in qs : IsSet(r.task_start_date)}

no_start_date(qs) == {r \in qs : ~IsSet(r.task_start_date)}

no_exitcode(qs) == {r \in qs : ~IsSet(r.task_exitcode)}

not_started(qs) == {r \in no_start_date(no_exitcode(qs)) : ~IsSet(r.task_id)}

QueuedWhateverStartDate(qs) == {r \in no_exitcode(qs) : IsSet(r.task_id)}

queued(qs) == {r \in no_start_date(no_exitcode(qs)) : IsSet(r.task_id)}

running(qs) == {r \in has_start_date(no_exitcode(qs)) : ~IsSet(r.task_end_date)}

executed(qs) == {r \in qs : IsSet(r.task_end_date)}

CanStartIgnoresPrevious(c) == status(c.self) = Status.NOT_STARTED

can_start(c) ==
    IF status(c.self) # Status.NOT_STARTED THEN FALSE
    ELSE IF not_executed(get_previous_runs(c)) # {} THEN FALSE
    ELSE TRUE

\* tasks.execute_pipeline_task(run_pk): loads the Run, marks it started, runs
\* the pipeline body and records how it ended.
execute_pipeline_task(c, run_pk) ==
    LET run == [c EXCEPT !.self = c.db[run_pk]]
        started == set_task_started(run, run_pk)
        ended == set_task_ended(started, c.body[1], c.body[2])
    IN  [c EXCEPT !.db = ended.db]

QueuedBeforeEnqueue(c) ==
    IF ~async
    THEN execute_pipeline_task([c EXCEPT !.enq = @ + 1], c.self.pk)
    ELSE IF ~redis
    THEN Raise(set_task_queued([c EXCEPT !.enq = @ + 1]), ConnectionError)
    ELSE set_task_queued([c EXCEPT !.enq = @ + 1,
                                   !.jobs[c.self.pk] = JobStatus.QUEUED])

\* enq counts the calls of the inline executor and of django_rq.enqueue; the
\* latter raises when Redis does not answer, and nothing is written then.
execute_task_async(c) ==
    IF ~async
    THEN execute_pipeline_task([c EXCEPT !.enq = @ + 1], c.self.pk)
    ELSE IF ~redis THEN Raise([c EXCEPT !.enq = @ + 1], ConnectionError)
    ELSE set_task_queued([c EXCEPT !.enq = @ + 1,
                                   !.jobs[c.self.pk] = JobStatus.QUEUED])

StartWithoutRaise(c) ==
    IF can_start(c) THEN execute_task_async(c) ELSE c

start(c) ==
    IF can_start(c) THEN execute_task_async(c)
    ELSE Raise(c, RunNotAllowedToStart)

\* ------------------------------------------------------ job/run reconciler
JobOutOfSyncRunningOnly(self, js) ==
    status(self) = Status.RUNNING /\ js # JobStatus.STARTED

JobOutOfSyncWhateverStatus(self, js) ==
    js # JobStatus.STARTED /\ IsSet(self.task_id)

job_is_out_of_sync(self, js) ==
    \/ status(self) = Status.RUNNING /\ js # JobStatus.STARTED
    \/ status(self) = Status.QUEUED /\ js # JobStatus.QUEUED

ReconcileUnguarded(c, js) ==
    IF js = NoJob
    THEN IF status(c.self) = Status.QUEUED THEN start(reset_task_values(c))
         ELSE IF status(c.self) = Status.RUNNING THEN set_task_staled(c)
         ELSE c
    ELSE IF js = JobStatus.STOPPED THEN set_task_stopped(c)
    ELSE IF js = JobStatus.FAILED
    THEN set_task_ended(c, FAILED_EXITCODE, FailedRegistryOutput)
    ELSE set_task_staled(c)

ReconcileLeavesLostRunning(c, js) ==
    IF js = NoJob
    THEN IF status(c.self) = Status.QUEUED THEN start(reset_task_values(c))
         ELSE c
    ELSE IF job_is_out_of_sync(c.self, js)
    THEN IF js = JobStatus.STOPPED THEN set_task_stopped(c)
         ELSE IF js = JobStatus.FAILED
         THEN set_task_ended(c, FAILED_EXITCODE, FailedRegistryOutput)
         ELSE set_task_staled(c)
    ELSE c

\* The body of sync_with_job once the job status was read.
reconcile(c, js) ==
    IF js = NoJob
    THEN IF status(c.self) = Status.QUEUED THEN start(reset_task_values(c))
         ELSE IF status(c.self) = Status.RUNNING THEN set_task_staled(c)
         ELSE c
    ELSE IF job_is_out_of_sync(c.self, js)
    THEN IF js = JobStatus.STOPPED THEN set_task_stopped(c)
         ELSE IF js = JobStatus.FAILED
         THEN set_task_ended(c, FAILED_EXITCODE, FailedRegistryOutput)
         ELSE set_task_staled(c)
    ELSE c

\* Reading job_status asks Redis, which raises when it does not answer.
sync_with_job(c) ==
    IF async /\ ~redis THEN Raise(c, ConnectionError)
    ELSE LET js == IF async THEN job_status(c) ELSE NoJob
         IN  reconcile([c EXCEPT !.js = js], js)

\* --------------------------------------------------------- delete a task
RECURSIVE delete(_), delete_task(_, _)

DeleteWithoutSuppress(c) ==
    LET st == status(c.self)
        tried == IF st = Status.RUNNING THEN stop_task(c)
                 ELSE IF st = Status.QUEUED THEN delete_task(c, FALSE)
                 ELSE c
    IN  IF tried.exc # NoExc THEN tried
        ELSE [tried EXCEPT !.db[c.self.pk].deleted = TRUE]

\* with suppress(ConnectionError, AttributeError): ...; super().delete()
delete(c) ==
    LET st == status(c.self)
        tried == IF st = Status.RUNNING THEN stop_task(c)
                 ELSE IF st = Status.QUEUED THEN delete_task(c, FALSE)
                 ELSE c
        after == IF tried.exc = ConnectionError
                 THEN [tried EXCEPT !.exc = NoExc]
                 ELSE tried
    IN  IF after.exc # NoExc THEN after
        ELSE [after EXCEPT !.db[c.self.pk].deleted = TRUE]

DeleteTaskKeepsJob(c, delete_self) ==
    IF delete_self THEN delete(c) ELSE c

delete_task(c, delete_self) ==
    LET probed ==
            IF async /\ IsSet(c.self.task_id)
            THEN IF ~redis THEN Raise(c, ConnectionError)
                 ELSE IF job(c) # NoJob
                 THEN [c EXCEPT !.jobs[c.self.task_id[1]] = NoJob]
                 ELSE c
            ELSE c
    IN  IF probed.exc # NoExc THEN probed
        ELSE IF delete_self THEN delete(probed)
        ELSE probed

DeleteViewWhateverStatus(c) == delete_task(c, TRUE)

\* views.delete_pipeline_view
delete_pipeline_view(c) ==
    IF status(c.self) \notin {Status.NOT_STARTED, Status.QUEUED}
    THEN Raise(c, Http404)
    ELSE delete_task(c, TRUE)

\* ------------------------------------------------------------ the project
\* Project.WORK_DIRECTORIES
WORK_DIRECTORIES == {"input", "output", "codebase", "tmp"}

\* A project row with files in every work directory, related objects
\* (resources, packages, messages) and extra_data; `files` is the set of work
\* directories that hold files.
NewProject ==
    [is_archived |-> FALSE, deleted |-> FALSE, files |-> WORK_DIRECTORIES,
     related |-> TRUE, extra_data |-> TRUE]

\* The context of one call on the project: the instance, the scanpipe_run
\* table and the exception raised.
ProjectCtx == [project |-> project, db |-> runs, exc |-> NoExc]

\* RunQuerySet.queued_or_running()
queued_or_running(db) ==
    {i \in DOMAIN db : /\ ~db[i].deleted
                       /\ IsSet(db[i].task_id)
                       /\ ~IsSet(db[i].task_end_date)}

RaiseOnlyIfStarted(p) ==
    IF \E i \in DOMAIN p.db : ~p.db[i].deleted /\ IsSet(p.db[i].task_start_date)
                              /\ ~IsSet(p.db[i].task_end_date)
    THEN [p EXCEPT !.exc = RunInProgressError]
    ELSE p

_raise_if_run_in_progress(p) ==
    IF queued_or_running(p.db) # {}
    THEN [p EXCEPT !.exc = RunInProgressError]
    ELSE p

\* Every related row is removed with _raw_delete: Run.delete() is not called.
delete_related_objects(p) ==
    [p EXCEPT !.project.related = FALSE,
              !.db = [i \in DOMAIN p.db |-> [p.db[i] EXCEPT !.deleted = TRUE]]]

\* shutil.rmtree on each path, then setup_work_directory()
rmtree(p, paths) == [p EXCEPT !.project.files = @ \ paths]

Project_archive(p, remove_input, remove_codebase, remove_output) ==
    LET checked == _raise_if_run_in_progress(p)
        paths == (IF remove_input THEN {"input"} ELSE {})
                 \cup (IF remove_codebase THEN {"codebase"} ELSE {})
                 \cup (IF remove_output THEN {"output"} ELSE {})
                 \cup {"tmp"}
    IN  IF checked.exc # NoExc THEN checked
        ELSE [rmtree(checked, paths) EXCEPT !.project.is_archived = TRUE]

Project_delete(p) ==
    LET checked == _raise_if_run_in_progress(p)
    IN  IF checked.exc # NoExc THEN checked
        ELSE [delete_related_objects(rmtree(checked, WORK_DIRECTORIES))
                  EXCEPT !.project.deleted = TRUE]

Project_reset(p, keep_input) ==
    LET checked == _raise_if_run_in_progress(p)
        paths == {"codebase", "output", "tmp"}
                 \cup (IF keep_input THEN {} ELSE {"input"})
    IN  IF checked.exc # NoExc THEN checked
        ELSE rmtree([delete_related_objects(checked)
                         EXCEPT !.project.extra_data = FALSE], paths)

\* ------------------------------------------------------- loaded instances
\* The processes that hold a Run instance of their own: the worker running
\* the pipeline and a web caller.
Processes == {"worker", "web"}

\* No process holds an instance.
NotLoaded == [proc \in Processes |-> None]

\* ------------------------------------------------------------ state machine
RunIds == 1..MaxRuns
Created == DOMAIN runs
Alive == {r \in Created : ~runs[r].deleted}

\* The lines of a log, and the lines of all the logs of the project.
LogEntries(log) == Cardinality({i \in 1..Len(log) : log[i] = "\n"})

RECURSIVE SumLog(_)
SumLog(n) == IF n = 0 THEN 0 ELSE LogEntries(runs[n].log) + SumLog(n - 1)

TotalLog == SumLog(Len(runs))

NoCall ==
    [op |-> "none", run |-> 0, exc |-> NoExc, pre |-> NewRun(0),
     js |-> "unread", enq |-> 0, can |-> FALSE, res |-> "none"]

\* The effect of a call that ended as c on the table and the registries, and
\* the record of it: the row before the call, whether the gate was open, the
\* job status read, the hand-offs made and the exception raised.
Returns(op, r, c) ==
    /\ runs' = c.db
    /\ jobs' = c.jobs
    /\ last' = [op |-> op, run |-> r, exc |-> c.exc, pre |-> runs[r],
                js |-> c.js, enq |-> c.enq,
                can |-> can_start(Ctx(runs[r], c.body, c.kill)),
                res |-> "none"]
    /\ UNCHANGED <<async, redis>>

\* A project without Runs.
Init ==
    /\ runs = <<>>
    /\ jobs = [i \in RunIds |-> NoJob]
    /\ async \in BOOLEAN
    /\ redis = TRUE
    /\ last = NoCall
    /\ direct = 0
    /\ project = NewProject
    /\ loaded = NotLoaded

\* The pipeline names the registry knows, and one it does not.
PipelineNames == {"do_nothing", "not_available"}
Registered == {"do_nothing"}

\* The Run that Run.objects.create() adds to the table, before anything is
\* started.
Created_run(body) ==
    [Ctx(NewRun(Len(runs) + 1), body, FALSE) EXCEPT
        !.db = Append(runs, NewRun(Len(runs) + 1))]

AddPipelineStartsAnyway(pipeline_name, execute_now, body) ==
    IF pipeline_name \notin Registered
    THEN Raise(Ctx(NewRun(Len(runs) + 1), body, FALSE), ValueError)
    ELSE IF execute_now THEN start(Created_run(body))
    ELSE Created_run(body)

\* Project.add_pipeline(pipeline_name, execute_now); without an active
\* transaction the on_commit callback run.start is executed immediately.
add_pipeline(pipeline_name, execute_now, body) ==
    IF pipeline_name \notin Registered
    THEN Raise(Ctx(NewRun(Len(runs) + 1), body, FALSE), ValueError)
    ELSE IF execute_now /\ can_start(Created_run(body))
    THEN start(Created_run(body))
    ELSE Created_run(body)

AddPipeline ==
    \E pipeline_name \in PipelineNames, execute_now \in BOOLEAN,
       body \in BodyOutcomes :
        /\ Len(runs) < MaxRuns
        /\ LET c == add_pipeline(pipeline_name, execute_now, body)
           IN  /\ runs' = c.db
               /\ jobs' = c.jobs
               /\ last' = IF pipeline_name \notin Registered
                          THEN [NoCall EXCEPT !.op = "add_pipeline",
                                              !.exc = c.exc]
                          ELSE [op |-> "add_pipeline", run |-> Len(runs) + 1,
                                exc |-> c.exc, pre |-> NewRun(Len(runs) + 1),
                                js |-> c.js, enq |-> c.enq,
                                can |-> can_start(Created_run(body)),
                                res |-> IF execute_now THEN "execute_now"
                                        ELSE "none"]
        /\ UNCHANGED <<async, redis, direct, project, loaded>>

\* Run.start()
Start(r) ==
    \E body \in BodyOutcomes :
        /\ r \in Alive
        /\ Returns("start", r, start(Ctx(runs[r], body, FALSE)))
        /\ UNCHANGED <<direct, project, loaded>>

\* Run.sync_with_job()
SyncWithJob(r) ==
    \E body \in BodyOutcomes :
        /\ r \in Alive
        /\ Returns("sync_with_job", r, sync_with_job(Ctx(runs[r], body, FALSE)))
        /\ UNCHANGED <<direct, project, loaded>>

\* Run.stop_task()
StopTask(r) ==
    \E kill \in BOOLEAN :
        /\ r \in Alive
        /\ TotalLog < MaxLog
        /\ Returns("stop_task", r, stop_task(Ctx(runs[r], <<0, "">>, kill)))
        /\ UNCHANGED <<direct, project, loaded>>

\* A worker takes the job from the queue and enters execute_pipeline_task,
\* which marks the Run as started.
WorkerStart(r) ==
    /\ redis
    /\ jobs[r] = JobStatus.QUEUED
    /\ r \in Alive
    /\ LET c == set_task_started(Ctx(runs[r], <<0, "">>, FALSE), r)
       IN  /\ runs' = c.db
           /\ jobs' = [jobs EXCEPT ![r] = JobStatus.STARTED]
    /\ last' = NoCall
    /\ UNCHANGED <<async, redis, direct, project, loaded>>

\* The pipeline body returns and execute_pipeline_task records the end.
WorkerEnd(r) ==
    \E body \in BodyOutcomes :
        /\ redis
        /\ jobs[r] = JobStatus.STARTED
        /\ r \in Alive
        /\ LET c == set_task_ended(Ctx(runs[r], body, FALSE), body[1], body[2])
           IN  /\ runs' = c.db
               /\ jobs' = [jobs EXCEPT ![r] = JobStatus.FINISHED]
        /\ last' = NoCall
        /\ UNCHANGED <<async, redis, direct, project, loaded>>

\* The worker dies while executing the job: RQ's cleanup moves the job to the
\* FailedJobRegistry, and nothing is recorded on the Run.
WorkerKilled(r) ==
    /\ jobs[r] = JobStatus.STARTED
    /\ jobs' = [jobs EXCEPT ![r] = JobStatus.FAILED]
    /\ last' = NoCall
    /\ UNCHANGED <<runs, async, redis, direct, project, loaded>>

\* A queued job is canceled from outside.
JobCanceled(r) ==
    /\ jobs[r] = JobStatus.QUEUED
    /\ jobs' = [jobs EXCEPT ![r] = JobStatus.CANCELED]
    /\ last' = NoCall
    /\ UNCHANGED <<runs, async, redis, direct, project, loaded>>

\* A job waiting or executing leaves the registries: Redis lost it, or its
\* worker died without a trace.
JobLost(r) ==
    /\ jobs[r] \in {JobStatus.QUEUED, JobStatus.STARTED}
    /\ jobs' = [jobs EXCEPT ![r] = NoJob]
    /\ last' = NoCall
    /\ UNCHANGED <<runs, async, redis, direct, project, loaded>>

\* A job that ended leaves the registries when its result expires.
JobExpired(r) ==
    /\ jobs[r] \in JobStatuses \ {JobStatus.QUEUED, JobStatus.STARTED}
    /\ jobs' = [jobs EXCEPT ![r] = NoJob]
    /\ last' = NoCall
    /\ UNCHANGED <<runs, async, redis, direct, project, loaded>>

\* The operations of the sequencing gate, the worker and the loss of a job.
Next ==
    \/ AddPipeline
    \/ \E r \in RunIds : Start(r)
    \/ \E r \in RunIds : SyncWithJob(r)
    \/ \E r \in RunIds : StopTask(r)
    \/ \E r \in RunIds : WorkerStart(r)
    \/ \E r \in RunIds : WorkerEnd(r)
    \/ \E r \in RunIds : JobLost(r)

Spec == Init /\ [][Next]_vars

\* ------------------------------------------- direct calls of the recorder
\* The recorder methods called on a freshly loaded Run, as the tests do.
RecorderCall(r, op, c) ==
    /\ r \in Alive
    /\ direct < MaxDirect
    /\ direct' = direct + 1
    /\ UNCHANGED <<project, loaded>>
    /\ Returns(op, r, c)

ResetTaskValues(r) ==
    RecorderCall(r, "reset_task_values",
                 reset_task_values(Ctx(runs[r], <<0, "">>, FALSE)))

SetTaskQueued(r) ==
    RecorderCall(r, "set_task_queued",
                 set_task_queued(Ctx(runs[r], <<0, "">>, FALSE)))

SetTaskStarted(r) ==
    RecorderCall(r, "set_task_started",
                 set_task_started(Ctx(runs[r], <<0, "">>, FALSE), r))

SetTaskEnded(r) ==
    \E body \in BodyOutcomes :
        RecorderCall(r, "set_task_ended",
                     set_task_ended(Ctx(runs[r], body, FALSE), body[1], body[2]))

SetTaskStaled(r) ==
    RecorderCall(r, "set_task_staled",
                 set_task_staled(Ctx(runs[r], <<0, "">>, FALSE)))

SetTaskStopped(r) ==
    RecorderCall(r, "set_task_stopped",
                 set_task_stopped(Ctx(runs[r], <<0, "">>, FALSE)))

\* A project whose two Runs were created by add_pipeline(execute_now=False):
\* a Run and its earlier-created sibling.
InitPair ==
    /\ runs = <<NewRun(1), NewRun(2)>>
    /\ jobs = [i \in RunIds |-> NoJob]
    /\ async \in BOOLEAN
    /\ redis = TRUE
    /\ last = NoCall
    /\ direct = 0
    /\ project = NewProject
    /\ loaded = NotLoaded

\* The operations of the gate other than add_pipeline.
NextRuns ==
    \/ \E r \in RunIds : Start(r)
    \/ \E r \in RunIds : SyncWithJob(r)
    \/ \E r \in RunIds : StopTask(r)
    \/ \E r \in RunIds : WorkerStart(r)
    \/ \E r \in RunIds : WorkerEnd(r)
    \/ \E r \in RunIds : JobLost(r)

\* The gate's operations, and reset_task_values called on any Run.
NextReset ==
    \/ NextRuns
    \/ \E r \in RunIds : ResetTaskValues(r)

SpecReset == InitPair /\ [][NextReset]_vars

\* Every operation of the recorder called on any Run, next to the gate's
\* operations and the worker.
NextRecorder ==
    \/ NextRuns
    \/ \E r \in RunIds : ResetTaskValues(r)
    \/ \E r \in RunIds : SetTaskQueued(r)
    \/ \E r \in RunIds : SetTaskStarted(r)
    \/ \E r \in RunIds : SetTaskEnded(r)
    \/ \E r \in RunIds : SetTaskStaled(r)
    \/ \E r \in RunIds : SetTaskStopped(r)

SpecRecorder == InitPair /\ [][NextRecorder]_vars

\* The gate's operations, reset_task_values and set_task_queued called on any
\* Run, next to what happens to a job outside of them: its worker is killed,
\* it is canceled, it expires.
NextSync ==
    \/ NextReset
    \/ \E r \in RunIds : SetTaskQueued(r)
    \/ \E r \in RunIds : WorkerKilled(r)
    \/ \E r \in RunIds : JobCanceled(r)
    \/ \E r \in RunIds : JobExpired(r)

SpecSync == InitPair /\ [][NextSync]_vars

\* The Redis server stops or resumes answering.
RedisToggle ==
    /\ async
    /\ redis' = ~redis
    /\ last' = NoCall
    /\ UNCHANGED <<runs, jobs, async, direct, project, loaded>>

\* The gate's operations while the Redis server comes and goes.
NextQueue ==
    \/ NextRuns
    \/ RedisToggle

SpecQueue == InitPair /\ [][NextQueue]_vars

\* ------------------------------------------------------- deleting a Run
\* Run.delete()
DeleteRun(r) ==
    \E kill \in BOOLEAN :
        /\ r \in Alive
        /\ Returns("delete", r, delete(Ctx(runs[r], <<0, "">>, kill)))
        /\ UNCHANGED <<direct, project, loaded>>

\* Run.delete_task()
DeleteTask(r) ==
    \E kill \in BOOLEAN :
        /\ r \in Alive
        /\ Returns("delete_task", r,
                   delete_task(Ctx(runs[r], <<0, "">>, kill), TRUE))
        /\ UNCHANGED <<direct, project, loaded>>

\* The view behind the delete button of a pipeline run.
DeletePipelineView(r) ==
    /\ r \in Alive
    /\ Returns("delete_pipeline_view", r,
               delete_pipeline_view(Ctx(runs[r], <<0, "">>, FALSE)))
    /\ UNCHANGED <<direct, project, loaded>>

\* The gate's operations and the three ways of deleting a Run, while the
\* Redis server comes and goes.
NextDelete ==
    \/ NextRuns
    \/ RedisToggle
    \/ \E r \in RunIds : DeleteRun(r)
    \/ \E r \in RunIds : DeleteTask(r)
    \/ \E r \in RunIds : DeletePipelineView(r)

SpecDelete == InitPair /\ [][NextDelete]_vars

\* ------------------------------------------------------ appending to a log
\* The characters of a message: a letter, a space and the two line returns.
Characters == {"a", " ", "\n", "\r"}

Messages == UNION {[1..n -> Characters] : n \in 0..MaxMessage}

\* run.append_to_log(message) on a freshly loaded Run.
AppendToLog(r) ==
    \E message \in Messages :
        /\ r \in Alive
        /\ TotalLog < MaxLog
        /\ Returns("append_to_log", r,
                   append_to_log(Ctx(runs[r], <<0, "">>, FALSE), message))
        /\ UNCHANGED <<direct, project, loaded>>

\* Runs are started and stopped, and messages appended to the log of any Run.
NextLog ==
    \/ \E r \in RunIds : Start(r)
    \/ \E r \in RunIds : StopTask(r)
    \/ \E r \in RunIds : AppendToLog(r)

SpecLog == InitPair /\ [][NextLog]_vars

\* ------------------------------------------- calls on loaded instances
\* Run.objects.get(pk=...) in a process: the instance holds the row as it is
\* now, and no later write of another process reaches it.
Load(proc, r) ==
    /\ r \in Alive
    /\ loaded[proc] # Some(runs[r])
    /\ loaded' = [loaded EXCEPT ![proc] = Some(runs[r])]
    /\ last' = NoCall
    /\ UNCHANGED <<runs, jobs, async, redis, direct, project>>

\* The instance a process holds, and the context of a call made on it.
Instance(proc) == loaded[proc][1]

InstanceCtx(proc, body) == Ctx(Instance(proc), body, FALSE)

\* A method called on the instance a process holds: the row is written as
\* the method saves it and the instance keeps the attributes it assigned.
InstanceCall(proc, op, c) ==
    /\ IsSet(loaded[proc])
    /\ Instance(proc).pk \in Alive
    /\ Returns(op, Instance(proc).pk, c)
    /\ loaded' = [loaded EXCEPT ![proc] = Some(c.self)]
    /\ UNCHANGED project

\* The lines the processes log: a pipeline step and the stop request.
LogLines == {<<"a">>, StopMessage}

LoadedAppendToLog(proc) ==
    \E message \in LogLines :
        /\ IsSet(loaded[proc])
        /\ LogEntries(Instance(proc).log) < MaxLog
        /\ InstanceCall(proc, "append_to_log",
                        append_to_log(InstanceCtx(proc, <<0, "">>), message))
        /\ UNCHANGED direct

\* A recorder method called on the instance a process holds.
LoadedRecorderCall(proc, op, c) ==
    /\ direct < MaxDirect
    /\ direct' = direct + 1
    /\ InstanceCall(proc, op, c)

LoadedSetTaskQueued(proc) ==
    /\ IsSet(loaded[proc])
    /\ LoadedRecorderCall(proc, "set_task_queued",
                          set_task_queued(InstanceCtx(proc, <<0, "">>)))

LoadedSetTaskStarted(proc) ==
    /\ IsSet(loaded[proc])
    /\ LoadedRecorderCall(proc, "set_task_started",
                          set_task_started(InstanceCtx(proc, <<0, "">>),
                                           Instance(proc).pk))

LoadedSetTaskEnded(proc) ==
    \E body \in BodyOutcomes :
        /\ IsSet(loaded[proc])
        /\ LoadedRecorderCall(proc, "set_task_ended",
                              set_task_ended(InstanceCtx(proc, body),
                                             body[1], body[2]))

LoadedResetTaskValues(proc) ==
    /\ IsSet(loaded[proc])
    /\ LoadedRecorderCall(proc, "reset_task_values",
                          reset_task_values(InstanceCtx(proc, <<0, "">>)))

\* Two processes load the Runs of the project and call the recorder and
\* append_to_log on the instances they hold, in any order.
NextInstances ==
    \/ \E proc \in Processes, r \in RunIds : Load(proc, r)
    \/ \E proc \in Processes : LoadedAppendToLog(proc)
    \/ \E proc \in Processes : LoadedSetTaskQueued(proc)
    \/ \E proc \in Processes : LoadedSetTaskStarted(proc)
    \/ \E proc \in Processes : LoadedSetTaskEnded(proc)
    \/ \E proc \in Processes : LoadedResetTaskValues(proc)

\* A project with one Run that no process has loaded yet.
InitInstances ==
    /\ runs = <<NewRun(1)>>
    /\ jobs = [i \in RunIds |-> NoJob]
    /\ async \in BOOLEAN
    /\ redis = TRUE
    /\ last = NoCall
    /\ direct = 0
    /\ project = NewProject
    /\ loaded = NotLoaded

SpecInstances == InitInstances /\ [][NextInstances]_vars

\* ------------------------------------------------- repair under fair workers
\* The gate's operations next to what happens to a job outside of them: its
\* worker is killed or it is canceled.
NextRepair ==
    \/ NextRuns
    \/ \E r \in RunIds : WorkerKilled(r)
    \/ \E r \in RunIds : JobCanceled(r)

\* sync_with_job is invoked again and again on every Run; a job that is in
\* the queue again and again is picked up; a job that was picked up records
\* its end unless its worker dies first.
FairRepair ==
    \A r \in 1..2 :
        /\ WF_vars(SyncWithJob(r))
        /\ SF_vars(WorkerStart(r))
        /\ WF_vars(WorkerEnd(r) \/ WorkerKilled(r))

SpecRepair == InitPair /\ [][NextRepair]_vars /\ FairRepair

\* ------------------------------------------ start called on loaded instances
\* run.start() on the instance a process holds.
LoadedStart(proc) ==
    \E body \in BodyOutcomes :
        /\ IsSet(loaded[proc])
        /\ timezone_now(InstanceCtx(proc, body)) <= MaxClock
        /\ InstanceCall(proc, "start", start(InstanceCtx(proc, body)))
        /\ UNCHANGED direct

\* Two callers load the Runs of the project and call start on the instance
\* they hold, while the workers take and execute the jobs.
NextStarts ==
    \/ \E proc \in Processes, r \in RunIds : Load(proc, r)
    \/ \E proc \in Processes : LoadedStart(proc)
    \/ \E r \in RunIds : WorkerStart(r)
    \/ \E r \in RunIds : WorkerEnd(r)

SpecStarts == InitPair /\ [][NextStarts]_vars

\* --------------------------------------- the recorder without reset
\* A recorder method or stop_task called on the instance a process holds,
\* as long as the clock it reads has not passed MaxClock.
InstanceWrite(proc, op, c) ==
    /\ timezone_now(InstanceCtx(proc, <<0, "">>)) <= MaxClock
    /\ InstanceCall(proc, op, c)
    /\ UNCHANGED direct

HeldSetTaskQueued(proc) ==
    /\ IsSet(loaded[proc])
    /\ InstanceWrite(proc, "set_task_queued",
                     set_task_queued(InstanceCtx(proc, <<0, "">>)))

HeldSetTaskStarted(proc) ==
    /\ IsSet(loaded[proc])
    /\ InstanceWrite(proc, "set_task_started",
                     set_task_started(InstanceCtx(proc, <<0, "">>),
                                      Instance(proc).pk))

HeldSetTaskEnded(proc) ==
    \E body \in BodyOutcomes :
        /\ IsSet(loaded[proc])
        /\ InstanceWrite(proc, "set_task_ended",
                         set_task_ended(InstanceCtx(proc, body),
                                        body[1], body[2]))

HeldSetTaskStaled(proc) ==
    /\ IsSet(loaded[proc])
    /\ InstanceWrite(proc, "set_task_staled",
                     set_task_staled(InstanceCtx(proc, <<0, "">>)))

HeldSetTaskStopped(proc) ==
    /\ IsSet(loaded[proc])
    /\ InstanceWrite(proc, "set_task_stopped",
                     set_task_stopped(InstanceCtx(proc, <<0, "">>)))

HeldStopTask(proc) ==
    /\ IsSet(loaded[proc])
    /\ LogEntries(Instance(proc).log) < MaxLog
    /\ InstanceWrite(proc, "stop_task",
                     stop_task(InstanceCtx(proc, <<0, "">>)))

\* Two processes load the Run and call, on the instance they hold and in any
\* order, every method that writes a task field but reset_task_values.
NextForward ==
    \/ \E proc \in Processes, r \in RunIds : Load(proc, r)
    \/ \E proc \in Processes : HeldSetTaskQueued(proc)
    \/ \E proc \in Processes : HeldSetTaskStarted(proc)
    \/ \E proc \in Processes : HeldSetTaskEnded(proc)
    \/ \E proc \in Processes : HeldSetTaskStaled(proc)
    \/ \E proc \in Processes : HeldSetTaskStopped(proc)
    \/ \E proc \in Processes : HeldStopTask(proc)

SpecForward == InitInstances /\ [][NextForward]_vars

\* ---------------------------------------------- operations on the project
\* The effect of a call on the project that ended as p.
ProjectReturns(op, p) ==
    /\ ~project.deleted
    /\ project' = p.project
    /\ runs' = p.db
    /\ last' = [NoCall EXCEPT !.op = op, !.exc = p.exc]
    /\ UNCHANGED <<jobs, async, redis, direct, loaded>>

ProjectArchive ==
    \E remove_input \in BOOLEAN, remove_codebase \in BOOLEAN,
       remove_output \in BOOLEAN :
        ProjectReturns("archive",
                       Project_archive(ProjectCtx, remove_input,
                                       remove_codebase, remove_output))

ProjectDelete == ProjectReturns("delete_project", Project_delete(ProjectCtx))

ProjectReset ==
    \E keep_input \in BOOLEAN :
        ProjectReturns("reset", Project_reset(ProjectCtx, keep_input))

\* The gate's operations on the Runs of a project that is archived, reset or
\* deleted at any moment.
NextProject ==
    \/ NextRuns
    \/ ProjectArchive
    \/ ProjectDelete
    \/ ProjectReset

SpecProject == InitPair /\ [][NextProject]_vars

\* ---------------------------------------------- reading the derived status
\* Values of the four task fields, whether or not the recorder writes them.
FieldTaskIds == {None, Some(1)}
FieldDates == {None, Some(0), Some(1)}
FieldExitcodes ==
    {None, Some(-1), Some(0), Some(FAILED_EXITCODE), Some(2),
     Some(STALE_EXITCODE), Some(STOPPED_EXITCODE)}

\* One Run holding any combination of the four task fields.
InitFields ==
    /\ \E task_id \in FieldTaskIds, task_start_date \in FieldDates,
          task_end_date \in FieldDates, task_exitcode \in FieldExitcodes :
            runs = <<[NewRun(1) EXCEPT !.task_id = task_id,
                                       !.task_start_date = task_start_date,
                                       !.task_end_date = task_end_date,
                                       !.task_exitcode = task_exitcode]>>
    /\ jobs = [i \in RunIds |-> NoJob]
    /\ async \in BOOLEAN
    /\ redis = TRUE
    /\ last = NoCall
    /\ direct = 0
    /\ project = NewProject
    /\ loaded = NotLoaded

\* run.status
ReadStatus(r) ==
    /\ r \in Alive
    /\ last' = [NoCall EXCEPT !.op = "status", !.run = r, !.pre = runs[r],
                              !.res = status(runs[r])]
    /\ UNCHANGED <<runs, jobs, async, redis, direct, project, loaded>>

NextFields == \E r \in RunIds : ReadStatus(r)

SpecFields == InitFields /\ [][NextFields]_vars

\* ------------------------------------------------------------------ claims
TaskFields(run) ==
    <<run.task_id, run.task_start_date, run.task_end_date, run.task_exitcode,
      run.task_output>>

InFlight(run) == status(run) \in {Status.QUEUED, Status.RUNNING}

Terminal(run) ==
    status(run) \in {Status.SUCCESS, Status.FAILURE, Status.STOPPED, Status.STALE}

\* C1: a read of status returns one of the seven values, the first that
\* matches in the order exitcode 0 -> SUCCESS, 88 -> STALE, 99 -> STOPPED,
\* any other exitcode > 0 -> FAILURE, start date set -> RUNNING, task_id set
\* -> QUEUED, otherwise NOT_STARTED; the read changes no field, and a second
\* read returns the same value.
C1_StatusFirstMatch ==
    last.op = "status" =>
        LET f == last.pre
            e == f.task_exitcode
            sentinel == e \in {Some(0), Some(STALE_EXITCODE), Some(STOPPED_EXITCODE)}
            positive == e # None /\ e[1] > 0
        IN  /\ last.res \in {Status.NOT_STARTED, Status.QUEUED, Status.RUNNING,
                             Status.SUCCESS, Status.FAILURE, Status.STOPPED,
                             Status.STALE}
            /\ e = Some(0) => last.res = Status.SUCCESS
            /\ e = Some(STALE_EXITCODE) => last.res = Status.STALE
            /\ e = Some(STOPPED_EXITCODE) => last.res = Status.STOPPED
            /\ ~sentinel /\ positive => last.res = Status.FAILURE
            /\ ~sentinel /\ ~positive /\ f.task_start_date # None
                   => last.res = Status.RUNNING
            /\ ~sentinel /\ ~positive /\ f.task_start_date = None
                   /\ f.task_id # None => last.res = Status.QUEUED
            /\ ~sentinel /\ ~positive /\ f.task_start_date = None
                   /\ f.task_id = None => last.res = Status.NOT_STARTED
            /\ runs[last.run] = f
            /\ status(runs[last.run]) = last.res

\* A stale Run that also has its dates and task_id set was read as STALE.
C1_Witness ==
    /\ last.op = "status"
    /\ last.pre.task_exitcode = Some(STALE_EXITCODE)
    /\ last.pre.task_start_date # None
    /\ last.pre.task_id # None
    /\ last.res = Status.STALE

\* C2: task_exitcode is set if and only if task_end_date is set, whatever
\* sequence of recorder calls, stop_task and sync_with_job was made.
C2_ExitcodeIffEndDate ==
    \A r \in Created :
        IsSet(runs[r].task_exitcode) <=> IsSet(runs[r].task_end_date)

\* A direct set_task_ended has just recorded an exitcode and an end date.
C2_Witness ==
    /\ last.op = "set_task_ended"
    /\ IsSet(runs[last.run].task_exitcode)
    /\ IsSet(runs[last.run].task_end_date)

\* No Run is queued or running while an earlier-created Run has not ended,
\* and so at most one Run is queued or running.
SequencingGate ==
    /\ \A r \in Alive : InFlight(runs[r]) =>
           \A p \in Alive : runs[p].created_date < runs[r].created_date
                                => IsSet(runs[p].task_end_date)
    /\ Cardinality({r \in Alive : InFlight(runs[r])}) <= 1

\* C3 as stated: the gate holds over any sequence of start, worker start and
\* end, stop_task, sync_with_job and reset_task_values.
C3_GateUnderReset == SequencingGate

\* C3: the gate holds as long as reset_task_values was not called on its own.
C3_GateWithoutReset == direct = 0 => SequencingGate

\* The second Run is queued or running after the first one ended, and no
\* reset was called.
C3_Witness ==
    /\ direct = 0
    /\ Len(runs) >= 2
    /\ InFlight(runs[2])
    /\ IsSet(runs[1].task_end_date)

\* C4: can_start is true exactly for a NOT_STARTED Run whose earlier-created
\* siblings all have task_end_date set; of three Runs only the first can
\* start, and once it ended the second can and the third cannot.
C4_CanStart ==
    /\ \A r \in Alive :
           can_start(Ctx(runs[r], <<0, "">>, FALSE)) <=>
               /\ status(runs[r]) = Status.NOT_STARTED
               /\ \A p \in Alive :
                      runs[p].created_date < runs[r].created_date
                          => IsSet(runs[p].task_end_date)
    /\ (Len(runs) = 3 /\ \A r \in 1..3 : status(runs[r]) = Status.NOT_STARTED)
           => /\ can_start(Ctx(runs[1], <<0, "">>, FALSE))
              /\ ~can_start(Ctx(runs[2], <<0, "">>, FALSE))
              /\ ~can_start(Ctx(runs[3], <<0, "">>, FALSE))
    /\ (Len(runs) = 3 /\ IsSet(runs[1].task_end_date)
            /\ \A r \in 2..3 : status(runs[r]) = Status.NOT_STARTED)
           => /\ can_start(Ctx(runs[2], <<0, "">>, FALSE))
              /\ ~can_start(Ctx(runs[3], <<0, "">>, FALSE))

\* Of three Runs the first was stopped: the second can start, the third not.
C4_Witness ==
    /\ Len(runs) = 3
    /\ status(runs[1]) \in {Status.STOPPED, Status.STALE}
    /\ status(runs[2]) = Status.NOT_STARTED
    /\ status(runs[3]) = Status.NOT_STARTED
    /\ can_start(Ctx(runs[2], <<0, "">>, FALSE))
    /\ ~can_start(Ctx(runs[3], <<0, "">>, FALSE))

\* C5: start hands the Run to the queue or to the inline executor exactly
\* when can_start is true; when it is false it raises RunNotAllowedToStart,
\* hands nothing over and leaves the Run as it was; it never returns without
\* the Run being queued (asynchronous mode) or executed (synchronous mode).
C5_StartOrRaise ==
    last.op = "start" =>
        LET run == runs[last.run]
        IN  /\ last.enq = 1 <=> last.can
            /\ last.enq \in {0, 1}
            /\ ~last.can =>
                   /\ last.exc = RunNotAllowedToStart
                   /\ run = last.pre
            /\ last.exc = NoExc =>
                   /\ last.can
                   /\ async => /\ status(run) = Status.QUEUED
                               /\ jobs[last.run] = JobStatus.QUEUED
                   /\ ~async => /\ IsSet(run.task_start_date)
                                /\ IsSet(run.task_end_date)
                                /\ Terminal(run)

\* start was refused on a Run whose earlier sibling has not ended.
C5_Witness ==
    /\ last.op = "start"
    /\ ~last.can
    /\ last.exc = RunNotAllowedToStart
    /\ status(last.pre) = Status.NOT_STARTED

\* sync_with_job called again on the Run, the queue answering as it did to
\* the last call.
SyncAgain(body) ==
    reconcile([Ctx(runs[last.run], body, FALSE) EXCEPT !.js = last.js], last.js)

\* The Run after one sync_with_job and after two, the queue answering js to
\* both of them.
SyncTwice(r, js, body) ==
    LET first == reconcile([Ctx(runs[r], body, FALSE) EXCEPT !.js = js], js)
        again == [first EXCEPT !.self = first.db[r], !.exc = NoExc, !.enq = 0]
        second == reconcile(again, js)
    IN  <<first.db[r], second.db[r]>>

\* C6: for every Run and every job snapshot (not found, or found in any
\* status), sync_with_job applied twice against the same snapshot leaves
\* the task fields of the Run after the second call as they were after the
\* first one; the same holds for a call that was just made.
C6_SyncIdempotent ==
    /\ \A r \in Alive : \A js \in JobStatuses \cup {NoJob} :
           \A body \in BodyOutcomes :
               LET twice == SyncTwice(r, js, body)
               IN  TaskFields(twice[2]) = TaskFields(twice[1])
    /\ (last.op = "sync_with_job") =>
           \A body \in BodyOutcomes :
               TaskFields(SyncAgain(body).db[last.run])
                   = TaskFields(runs[last.run])

\* sync_with_job has just re-queued a Run whose job was lost.
C6_Witness ==
    /\ last.op = "sync_with_job"
    /\ last.js = NoJob
    /\ status(last.pre) = Status.QUEUED
    /\ status(runs[last.run]) = Status.QUEUED
    /\ last.enq = 1

\* C7: sync_with_job on a QUEUED Run whose job is not found leaves it QUEUED
\* again, with a task_id and without a start date.
C7_LostQueuedRequeued ==
    (last.op = "sync_with_job" /\ status(last.pre) = Status.QUEUED
        /\ last.js = NoJob) =>
        LET run == runs[last.run]
        IN  /\ status(run) = Status.QUEUED
            /\ IsSet(run.task_id)
            /\ ~IsSet(run.task_start_date)

\* C8: sync_with_job on a RUNNING Run whose job is not found, or in
\* synchronous mode, leaves it STALE: exitcode 88, end date set, task_id and
\* start date as they were.
C8_LostRunningStale ==
    (last.op = "sync_with_job" /\ status(last.pre) = Status.RUNNING
        /\ last.js = NoJob) =>
        LET run == runs[last.run]
        IN  /\ last.exc = NoExc
            /\ status(run) = Status.STALE
            /\ run.task_exitcode = Some(STALE_EXITCODE)
            /\ IsSet(run.task_end_date)
            /\ run.task_id = last.pre.task_id
            /\ run.task_start_date = last.pre.task_start_date

\* In synchronous mode a RUNNING Run has been marked STALE.
C8_SyncModeStale ==
    /\ last.op = "sync_with_job"
    /\ ~async
    /\ status(last.pre) = Status.RUNNING
    /\ status(runs[last.run]) = Status.STALE

\* A RUNNING Run whose job was lost has been marked STALE.
C8_Witness ==
    /\ last.op = "sync_with_job"
    /\ status(last.pre) = Status.RUNNING
    /\ last.js = NoJob
    /\ status(runs[last.run]) = Status.STALE

\* sync_with_job on Run r, the queue reporting the job as js.
SyncFound(r, js) ==
    reconcile([Ctx(runs[r], <<0, "">>, FALSE) EXCEPT !.js = js], js)

\* C9: when the job exists, sync_with_job writes the Run only if it is
\* RUNNING and the job is not started, or QUEUED and the job is not queued;
\* then a stopped job gives STOPPED (99), a failed job FAILURE with exitcode
\* 1 and the failed-registry output, any other job STALE (88); in every
\* other case nothing is written.
C9_JobFound ==
    /\ \A r \in Alive : \A js \in JobStatuses :
           LET pre == runs[r]
               c == SyncFound(r, js)
               run == c.db[r]
               mismatch ==
                   \/ status(pre) = Status.RUNNING /\ js # JobStatus.STARTED
                   \/ status(pre) = Status.QUEUED /\ js # JobStatus.QUEUED
           IN  /\ c.exc = NoExc
               /\ c.jobs = jobs
               /\ \A p \in Created \ {r} : c.db[p] = runs[p]
               /\ (~mismatch) => (run = pre)
               /\ mismatch =>
                      /\ IsSet(run.task_end_date)
                      /\ run.task_id = pre.task_id
                      /\ run.task_start_date = pre.task_start_date
                      /\ run.log = pre.log
                      /\ (js = JobStatus.STOPPED) =>
                             /\ status(run) = Status.STOPPED
                             /\ run.task_exitcode = Some(STOPPED_EXITCODE)
                      /\ (js = JobStatus.FAILED) =>
                             /\ status(run) = Status.FAILURE
                             /\ run.task_exitcode = Some(1)
                             /\ run.task_output = FailedRegistryOutput
                      /\ (js \notin {JobStatus.STOPPED, JobStatus.FAILED}) =>
                             /\ status(run) = Status.STALE
                             /\ run.task_exitcode = Some(STALE_EXITCODE)
    /\ (last.op = "sync_with_job" /\ last.js \in JobStatuses) =>
           /\ last.exc = NoExc
           /\ runs[last.run] = SyncFound(last.run, last.js).db[last.run]
           /\ (last.js = JobStatus.FAILED /\ status(last.pre) = Status.RUNNING)
                  => status(runs[last.run]) = Status.FAILURE

\* sync_with_job found the job of a RUNNING Run in the failed registry and
\* has marked the Run as failed.
C9_Witness ==
    /\ last.op = "sync_with_job"
    /\ last.js = JobStatus.FAILED
    /\ status(last.pre) = Status.RUNNING
    /\ status(runs[last.run]) = Status.FAILURE
    /\ runs[last.run].task_output = FailedRegistryOutput

\* C10: sync_with_job returns without an exception, and never leaves a Run
\* that was QUEUED as NOT_STARTED.
C10_SyncRepairsWithoutError ==
    last.op = "sync_with_job" =>
        /\ last.exc = NoExc
        /\ ~(status(last.pre) = Status.QUEUED
                /\ status(runs[last.run]) = Status.NOT_STARTED)

\* stop_task called on Run r, a worker executing its job obeying the stop
\* command or not.
StopFrom(r, kill) == stop_task(Ctx(runs[r], <<0, "">>, kill))

\* The status of the job of Run r in the registries.
JobOf(r) ==
    IF IsSet(runs[r].task_id) /\ runs[r].task_id[1] \in DOMAIN jobs
    THEN jobs[runs[r].task_id[1]]
    ELSE NoJob

\* C11: stop_task appends "Stop task requested" to the log and ends the Run:
\* STOPPED (99) in synchronous mode; in asynchronous mode STALE (88) when the
\* job is absent, FAILURE with exitcode 1 and the killed-from-outside output
\* when the job failed, and otherwise the stop command is sent and the Run
\* is STOPPED; task_end_date is set in every branch.
C11_StopTaskBranches ==
    /\ \A r \in Alive : \A kill \in BOOLEAN :
           LET pre == runs[r]
               c == StopFrom(r, kill)
               run == c.db[r]
               js == JobOf(r)
           IN  /\ c.exc = NoExc
               /\ run.log = pre.log \o <<"Stop task requested", "\n">>
               /\ IsSet(run.task_end_date)
               /\ run.task_id = pre.task_id
               /\ run.task_start_date = pre.task_start_date
               /\ (~async) =>
                      /\ status(run) = Status.STOPPED
                      /\ run.task_exitcode = Some(99)
                      /\ c.jobs = jobs
               /\ (async /\ js = NoJob) =>
                      /\ status(run) = Status.STALE
                      /\ run.task_exitcode = Some(88)
                      /\ c.jobs = jobs
               /\ (async /\ js = JobStatus.FAILED) =>
                      /\ status(run) = Status.FAILURE
                      /\ run.task_exitcode = Some(1)
                      /\ run.task_output = KilledOutput
                      /\ c.jobs = jobs
               /\ (async /\ js \notin {NoJob, JobStatus.FAILED}) =>
                      /\ status(run) = Status.STOPPED
                      /\ run.task_exitcode = Some(99)
                      /\ (js = JobStatus.STARTED /\ kill)
                             => c.jobs[r] = JobStatus.STOPPED
    /\ (last.op = "stop_task") =>
           /\ last.exc = NoExc
           /\ IsSet(runs[last.run].task_end_date)
           /\ runs[last.run].log
                  = last.pre.log \o <<"Stop task requested", "\n">>

\* stop_task found the job of a RUNNING Run in the failed registry and has
\* recorded the failure.
C11_Witness ==
    /\ last.op = "stop_task"
    /\ last.js = JobStatus.FAILED
    /\ status(last.pre) = Status.RUNNING
    /\ status(runs[last.run]) = Status.FAILURE
    /\ runs[last.run].task_output = KilledOutput

\* stop_task has marked Run r as stopped: its log holds the request and its
\* status is STOPPED.
StoppedByStopTask(r) ==
    /\ status(runs[r]) = Status.STOPPED
    /\ \E i \in 1..Len(runs[r].log) : runs[r].log[i] = "Stop task requested"

\* The worker writes Run r in this step: it takes its job or ends it.
WorkerWrites(r) ==
    /\ jobs'[r] # jobs[r]
    /\ jobs'[r] \in {JobStatus.STARTED, JobStatus.FINISHED}

DeleteOps == {"delete", "delete_task", "delete_pipeline_view"}

\* C13 as stated: deleting a RUNNING Run signals an error and deletes
\* nothing: the record is still there with its fields unchanged.
C13_DeleteRunningRefused ==
    (last.op \in DeleteOps /\ status(last.pre) = Status.RUNNING) =>
        /\ last.exc # NoExc
        /\ runs[last.run] = last.pre

\* C13: delete_pipeline_view on a RUNNING Run signals Http404 and changes
\* neither the Run nor its job; Run.delete called on a RUNNING Run signals
\* no error: it goes through stop_task and then deletes the record.
C13_DeleteRunningView ==
    \A r \in Alive : status(runs[r]) = Status.RUNNING =>
        /\ LET c == delete_pipeline_view(Ctx(runs[r], <<0, "">>, FALSE))
           IN  /\ c.exc = Http404
               /\ c.db = runs
               /\ c.jobs = jobs
        /\ \A kill \in BOOLEAN :
               LET c == delete(Ctx(runs[r], <<0, "">>, kill))
               IN  /\ c.exc = NoExc
                   /\ c.db[r].deleted
                   /\ c.db[r].log
                          = runs[r].log \o <<"Stop task requested", "\n">>

\* The view has refused to delete a RUNNING Run.
C13_Witness ==
    /\ last.op = "delete_pipeline_view"
    /\ status(last.pre) = Status.RUNNING
    /\ last.exc = Http404
    /\ ~runs[last.run].deleted
    /\ runs[last.run] = last.pre

\* C14 as stated: once an in-flight Run was deleted, no job keyed by it
\* remains queued.
C14_NoQueuedJobLeft ==
    (last.op \in DeleteOps /\ InFlight(last.pre) /\ runs[last.run].deleted)
        => jobs[last.run] # JobStatus.QUEUED

\* C14: Run.delete on a QUEUED Run removes the record after delete_task has
\* removed its job from the queue, and on a RUNNING Run after stop_task was
\* attempted; with the queue reachable no job of the Run remains queued,
\* and with the queue unreachable the record is deleted and the job is left
\* as it is.
C14_JobBeforeRecord ==
    /\ \A r \in Alive : \A kill \in BOOLEAN :
           LET c0 == Ctx(runs[r], <<0, "">>, kill)
               end == delete(c0)
               dequeued == delete_task(c0, FALSE)
               stopped == stop_task(c0)
           IN  /\ InFlight(runs[r]) =>
                      /\ end.exc = NoExc
                      /\ end.db[r].deleted
               /\ (status(runs[r]) = Status.QUEUED /\ (redis \/ ~async)) =>
                      /\ dequeued.exc = NoExc
                      /\ ~dequeued.db[r].deleted
                      /\ dequeued.db = runs
                      /\ async => dequeued.jobs[r] = NoJob
                      /\ end.jobs = dequeued.jobs
                      /\ end.jobs[r] # JobStatus.QUEUED
               /\ (status(runs[r]) = Status.QUEUED /\ async /\ ~redis) =>
                      /\ dequeued.exc = ConnectionError
                      /\ end.jobs = jobs
               /\ (status(runs[r]) = Status.RUNNING) =>
                      /\ ~stopped.db[r].deleted
                      /\ end.db[r] = [stopped.db[r] EXCEPT !.deleted = TRUE]
                      /\ end.jobs = stopped.jobs
                      /\ (redis \/ ~async) => IsSet(end.db[r].task_end_date)
    /\ (/\ last.op \in {"delete", "delete_task"}
        /\ InFlight(last.pre)
        /\ (redis \/ ~async)) =>
           /\ last.exc = NoExc
           /\ runs[last.run].deleted
           /\ jobs[last.run] # JobStatus.QUEUED

\* Run.delete has removed a QUEUED Run and the job it had in the queue.
C14_Witness ==
    /\ last.op = "delete"
    /\ status(last.pre) = Status.QUEUED
    /\ async /\ redis
    /\ runs[last.run].deleted
    /\ jobs[last.run] = NoJob

\* The queue is used and its Redis server does not answer.
QueueUnreachable == async /\ ~redis

\* C15 as stated: with the queue unreachable stop_task, delete_task and
\* delete raise nothing; stop_task leaves the Run ended, delete_task and
\* delete remove the record.
C15_UnreachableTolerated ==
    (last.op \in {"stop_task", "delete_task", "delete"} /\ QueueUnreachable) =>
        /\ last.exc = NoExc
        /\ last.op = "stop_task" => IsSet(runs[last.run].task_end_date)
        /\ last.op \in {"delete_task", "delete"} => runs[last.run].deleted

\* C15: with the queue unreachable only Run.delete suppresses the connection
\* error and removes the record, leaving the task fields and the job as they
\* were; stop_task raises it after the log entry was appended and leaves
\* the Run not ended; delete_task raises it and deletes nothing when the
\* Run has a task_id, and deletes the record when it has none.
C15_OnlyDeleteSuppresses ==
    QueueUnreachable =>
        \A r \in Alive : \A kill \in BOOLEAN :
            LET c0 == Ctx(runs[r], <<0, "">>, kill)
                deleted == delete(c0)
                stopped == stop_task(c0)
                dequeued == delete_task(c0, TRUE)
            IN  /\ deleted.exc = NoExc
                /\ deleted.db[r].deleted
                /\ deleted.jobs = jobs
                /\ TaskFields(deleted.db[r]) = TaskFields(runs[r])
                /\ stopped.exc = ConnectionError
                /\ TaskFields(stopped.db[r]) = TaskFields(runs[r])
                /\ stopped.db[r].log
                       = runs[r].log \o <<"Stop task requested", "\n">>
                /\ stopped.jobs = jobs
                /\ IsSet(runs[r].task_id) =>
                       /\ dequeued.exc = ConnectionError
                       /\ dequeued.db = runs
                       /\ dequeued.jobs = jobs
                /\ (~IsSet(runs[r].task_id)) =>
                       /\ dequeued.exc = NoExc
                       /\ dequeued.db[r].deleted

\* Run.delete has removed an in-flight Run while the queue was unreachable.
C15_Witness ==
    /\ last.op = "delete"
    /\ QueueUnreachable
    /\ InFlight(last.pre)
    /\ last.exc = NoExc
    /\ runs[last.run].deleted

\* ------------------------------------------------ reading the execution time
\* int(x) of a quotient: the fraction is dropped, towards zero.
int(ticks) ==
    IF ticks >= 0 THEN ticks \div TicksPerSecond
    ELSE 0 - ((0 - ticks) \div TicksPerSecond)

ExecutionTimeOfStale(self) ==
    IF IsSet(self.task_end_date) /\ IsSet(self.task_start_date)
    THEN Some(int(self.task_end_date[1] - self.task_start_date[1]))
    ELSE None

\* run.execution_time; the dates are counted in clock ticks.
execution_time(self) ==
    IF task_staled(self) THEN None
    ELSE IF IsSet(self.task_end_date) /\ IsSet(self.task_start_date)
    THEN Some(int(self.task_end_date[1] - self.task_start_date[1]))
    ELSE None

\* Dates in ticks: T0, a fraction of a second later, a second and a fraction
\* later, 25 seconds later, and 25 seconds and a fraction later.
TickDates ==
    {None, Some(0), Some(1), Some(TicksPerSecond + 1),
     Some(25 * TicksPerSecond), Some(25 * TicksPerSecond + 1)}

\* One Run holding any combination of the two dates and of the exitcode.
InitTime ==
    /\ \E task_start_date \in TickDates, task_end_date \in TickDates,
          task_exitcode \in FieldExitcodes :
            runs = <<[NewRun(1) EXCEPT !.task_start_date = task_start_date,
                                       !.task_end_date = task_end_date,
                                       !.task_exitcode = task_exitcode]>>
    /\ jobs = [i \in RunIds |-> NoJob]
    /\ async \in BOOLEAN
    /\ redis = TRUE
    /\ last = NoCall
    /\ direct = 0
    /\ project = NewProject
    /\ loaded = NotLoaded

\* run.execution_time
ReadExecutionTime(r) ==
    /\ r \in Alive
    /\ last' = [NoCall EXCEPT !.op = "execution_time", !.run = r,
                              !.pre = runs[r],
                              !.res = execution_time(runs[r])]
    /\ UNCHANGED <<runs, jobs, async, redis, direct, project, loaded>>

\* The execution time is read, before and after the Run is flagged as stale.
NextTime ==
    \/ \E r \in RunIds : ReadExecutionTime(r)
    \/ \E r \in RunIds : SetTaskStaled(r)

SpecTime == InitTime /\ [][NextTime]_vars

\* ------------------------------------------------ resetting any field values
\* One Run created with any combination of the task fields, an output and a
\* log, as create_run(task_id=..., task_exitcode=..., ...) makes it.
InitAnyFields ==
    /\ \E task_id \in FieldTaskIds, task_start_date \in FieldDates,
          task_end_date \in FieldDates, task_exitcode \in FieldExitcodes,
          task_output \in {"", "Output"}, log \in {<<>>, <<"a", "\n">>} :
            runs = <<[NewRun(1) EXCEPT !.task_id = task_id,
                                       !.task_start_date = task_start_date,
                                       !.task_end_date = task_end_date,
                                       !.task_exitcode = task_exitcode,
                                       !.task_output = task_output,
                                       !.log = log]>>
    /\ jobs = [i \in RunIds |-> NoJob]
    /\ async \in BOOLEAN
    /\ redis = TRUE
    /\ last = NoCall
    /\ direct = 0
    /\ project = NewProject
    /\ loaded = NotLoaded

\* The status is read and the task values are reset.
NextAnyFields ==
    \/ \E r \in RunIds : ReadStatus(r)
    \/ \E r \in RunIds : ResetTaskValues(r)

SpecAnyFields == InitAnyFields /\ [][NextAnyFields]_vars

\* ---------------------------------------------------------------- C16
\* A Run of the project is queued or running.
RunInProgress ==
    \E r \in Alive : status(runs[r]) \in {Status.QUEUED, Status.RUNNING}

\* The call that ended as p raised RunInProgressError and changed nothing.
Refused(p) ==
    /\ p.exc = RunInProgressError
    /\ p.project = project
    /\ p.db = runs

\* Every Run of the project is removed by the call that ended as p.
RunsRemoved(p) == \A i \in DOMAIN p.db : p.db[i].deleted

\* C16: Project.delete, Project.archive and Project.reset each raise
\* RunInProgressError and change nothing (no Run, related object or work
\* directory removed, is_archived not set) whenever a Run of the project is
\* queued or running; when no Run is queued or running they proceed: archive
\* sets is_archived and keeps the Runs, delete removes the project, its
\* files, its related objects and its Runs, reset removes the related objects
\* and the Runs and keeps the project.
C16_RunInProgressRefused ==
    ~project.deleted =>
        /\ \A remove_input \in BOOLEAN, remove_codebase \in BOOLEAN,
              remove_output \in BOOLEAN :
              LET p == Project_archive(ProjectCtx, remove_input,
                                       remove_codebase, remove_output)
              IN  IF RunInProgress THEN Refused(p)
                  ELSE /\ p.exc = NoExc
                       /\ p.project.is_archived
                       /\ "tmp" \notin p.project.files
                       /\ p.db = runs
        /\ LET p == Project_delete(ProjectCtx)
           IN  IF RunInProgress THEN Refused(p)
               ELSE /\ p.exc = NoExc
                    /\ p.project.deleted
                    /\ p.project.files = {}
                    /\ ~p.project.related
                    /\ RunsRemoved(p)
        /\ \A keep_input \in BOOLEAN :
              LET p == Project_reset(ProjectCtx, keep_input)
              IN  IF RunInProgress THEN Refused(p)
                  ELSE /\ p.exc = NoExc
                       /\ ~p.project.deleted
                       /\ ~p.project.related
                       /\ p.project.files \subseteq {"input"}
                       /\ RunsRemoved(p)

\* Project.delete() was just refused while a Run is queued: the project, its
\* files and its two Runs are all still there.
C16_Witness ==
    /\ last.op = "delete_project"
    /\ last.exc = RunInProgressError
    /\ \E r \in Alive : status(runs[r]) = Status.QUEUED
    /\ Alive = {1, 2}
    /\ project = NewProject

\* ---------------------------------------------------------------- C17
\* C17: set_task_queued on a Run whose task_id is already set raises an error
\* and leaves task_id and every other field unchanged; on a Run whose task_id
\* is unset it writes task_id := the pk of the Run and nothing else, so that
\* a NOT_STARTED Run becomes QUEUED.
C17_SetTaskQueued ==
    \A r \in Alive :
        LET c == set_task_queued(Ctx(runs[r], <<0, "">>, FALSE))
        IN  /\ c.jobs = jobs
            /\ IF IsSet(runs[r].task_id)
               THEN /\ c.exc = ValueError
                    /\ c.db = runs
               ELSE /\ c.exc = NoExc
                    /\ c.db = [runs EXCEPT ![r].task_id = Some(r)]
                    /\ (status(runs[r]) = Status.NOT_STARTED
                            => status(c.db[r]) = Status.QUEUED)

\* set_task_queued was just refused on a Run that start() had queued.
C17_Witness ==
    /\ last.op = "set_task_queued"
    /\ last.exc = ValueError
    /\ status(last.pre) = Status.QUEUED
    /\ runs[last.run] = last.pre

\* ---------------------------------------------------------------- C18
\* The message holds a CR or a LF.
HasLineReturn(message) ==
    \E i \in 1..Len(message) : message[i] \in {"\n", "\r"}

\* The call that ended as c appended these characters and a "\n" to the log
\* of Run r and wrote nothing else.
Appended(c, r, text) ==
    /\ c.exc = NoExc
    /\ c.jobs = jobs
    /\ c.db = [runs EXCEPT ![r].log = @ \o text \o <<"\n">>]

\* The call that ended as c raised ValueError and wrote nothing.
Rejected(c) ==
    /\ c.exc = ValueError
    /\ c.jobs = jobs
    /\ c.db = runs

\* C18 as stated: append_to_log(message) raises an error for every message
\* that holds a CR or a LF and leaves the stored log unchanged; for every
\* message without CR and LF it appends exactly message and one "\n" to log
\* and writes no other field.
C18_LineReturnsRejected ==
    \A r \in Alive : \A message \in Messages :
        LET c == append_to_log(Ctx(runs[r], <<0, "">>, FALSE), message)
        IN  IF HasLineReturn(message) THEN Rejected(c)
            ELSE Appended(c, r, message)

\* C18 as the code has it: the message is stripped of its leading and
\* trailing whitespace first; append_to_log raises an error and leaves the
\* stored log unchanged when a CR or a LF is left in the stripped message,
\* and otherwise appends the stripped message and one "\n" to log and
\* writes no other field.
C18_StrippedThenRejected ==
    \A r \in Alive : \A message \in Messages :
        LET c == append_to_log(Ctx(runs[r], <<0, "">>, FALSE), message)
        IN  IF HasLineReturn(strip(message)) THEN Rejected(c)
            ELSE Appended(c, r, strip(message))

\* A message was just appended to the log of a Run: one more line, made of
\* characters that are not line returns.
C18_Witness ==
    /\ last.op = "append_to_log"
    /\ last.exc = NoExc
    /\ \E text \in Messages :
          /\ text # <<>>
          /\ ~HasLineReturn(text)
          /\ runs[last.run].log = last.pre.log \o text \o <<"\n">>

\* ---------------------------------------------------------------- C19
\* The columns of a Run row.
Columns == DOMAIN NewRun(0)

\* The call that ended as c, made on an instance of Run pk, wrote only these
\* columns of that row, and no other row.
WroteOnly(c, pk, fields) ==
    /\ c.exc = NoExc
    /\ \A f \in Columns \ fields : c.db[pk][f] = runs[pk][f]
    /\ \A f \in fields : c.db[pk][f] = c.self[f]
    /\ \A i \in DOMAIN runs \ {pk} : c.db[i] = runs[i]
    /\ DOMAIN c.db = DOMAIN runs

\* C19: each lifecycle write is field-scoped, whatever the instance held in
\* memory has missed: set_task_ended stores only task_exitcode, task_output
\* and task_end_date, set_task_started only task_id and task_start_date,
\* set_task_queued only task_id, reset_task_values only the five task
\* fields. In particular the log stored by another writer after the instance
\* was loaded is still the stored log after the instance calls
\* set_task_ended.
C19_FieldScopedWrites ==
    \A proc \in Processes :
        (IsSet(loaded[proc]) /\ Instance(proc).pk \in Alive) =>
            LET pk == Instance(proc).pk
                queuedCall == set_task_queued(InstanceCtx(proc, <<0, "">>))
                started == set_task_started(InstanceCtx(proc, <<0, "">>), pk)
                reset == reset_task_values(InstanceCtx(proc, <<0, "">>))
            IN  /\ \A body \in BodyOutcomes :
                      LET ended == set_task_ended(InstanceCtx(proc, body),
                                                  body[1], body[2])
                      IN  /\ WroteOnly(ended, pk,
                                       {"task_exitcode", "task_output",
                                        "task_end_date"})
                          /\ ended.db[pk].task_exitcode = Some(body[1])
                          /\ ended.db[pk].log = runs[pk].log
                /\ WroteOnly(started, pk, {"task_id", "task_start_date"})
                /\ (~IsSet(Instance(proc).task_id)
                        => WroteOnly(queuedCall, pk, {"task_id"}))
                /\ WroteOnly(reset, pk,
                             {"task_id", "task_start_date", "task_end_date",
                              "task_exitcode", "task_output"})

\* A process has just called set_task_ended on an instance loaded before
\* another writer appended to the log: the instance still has an empty log,
\* and the stored row has the end date of the instance and the entry.
C19_Witness ==
    /\ last.op = "set_task_ended"
    /\ last.exc = NoExc
    /\ \E proc \in Processes :
          /\ IsSet(loaded[proc])
          /\ Instance(proc).pk = last.run
          /\ Instance(proc).log = <<>>
          /\ Instance(proc).task_end_date = runs[last.run].task_end_date
    /\ IsSet(runs[last.run].task_end_date)
    /\ runs[last.run].log # <<>>
    /\ runs[last.run].log = last.pre.log

\* ---------------------------------------------------------------- C20
\* The first log is the beginning of the second.
IsPrefix(log, longer) ==
    /\ Len(log) <= Len(longer)
    /\ SubSeq(longer, 1, Len(log)) = log

\* C20: the log field is append-only under concurrent writers. In every
\* interleaving of append_to_log calls made by processes that hold their own
\* instance of the same Run, a call that returns has put its message at the
\* end of the stored log, and the stored log of a Run only grows: every
\* message appended before is still there, in the order the appends ended.
C20_LogAppendOnly ==
    [][\A r \in DOMAIN runs :
          /\ IsPrefix(runs[r].log, runs'[r].log)
          /\ (last'.op = "append_to_log" /\ last'.exc = NoExc
              /\ last'.run = r /\ loaded' # loaded)
                 => \E message \in LogLines :
                       runs'[r].log = runs[r].log \o message \o <<"\n">>]_vars

\* ---------------------------------------------------------------- C21
\* C21 as stated: in every reachable state, a Run whose task_id is unset has
\* status NOT_STARTED.
C21_UnsetTaskIdNotStarted ==
    \A r \in Alive :
        ~IsSet(runs[r].task_id) => status(runs[r]) = Status.NOT_STARTED

\* C21 as the code has it: in every reachable state, a Run whose task_id is
\* unset has no task_start_date and is never QUEUED or RUNNING; its status is
\* NOT_STARTED unless an end was recorded on it without a start (stop_task
\* or set_task_ended on a Run that was never queued), and then it has an end
\* date and one of the four terminal statuses.
C21_UnsetTaskIdNotInFlight ==
    \A r \in Alive :
        ~IsSet(runs[r].task_id) =>
            /\ ~IsSet(runs[r].task_start_date)
            /\ ~InFlight(runs[r])
            /\ \/ status(runs[r]) = Status.NOT_STARTED
               \/ Terminal(runs[r]) /\ IsSet(runs[r].task_end_date)

\* stop_task was just called in synchronous mode on a Run that was never
\* started: the Run is STOPPED and its task_id is unset.
C21_Witness ==
    /\ last.op = "stop_task"
    /\ ~async
    /\ status(last.pre) = Status.NOT_STARTED
    /\ status(runs[last.run]) = Status.STOPPED
    /\ ~IsSet(runs[last.run].task_id)

\* ---------------------------------------------------------------- C22
\* C22: reset_task_values is a total reset. Applied to a Run in any state
\* (any of the seven statuses, any combination of the task fields) it leaves
\* task_id, task_start_date, task_end_date and task_exitcode unset and
\* task_output empty, so that the status is NOT_STARTED; the log, every
\* other column, every other row and the job registries are unchanged.
C22_ResetIsTotal ==
    /\ \A r \in Alive :
          LET c == reset_task_values(Ctx(runs[r], <<0, "">>, FALSE))
          IN  /\ c.exc = NoExc
              /\ TaskFields(c.db[r]) = <<None, None, None, None, "">>
              /\ status(c.db[r]) = Status.NOT_STARTED
              /\ c.db = [runs EXCEPT ![r].task_id = None,
                                     ![r].task_start_date = None,
                                     ![r].task_end_date = None,
                                     ![r].task_exitcode = None,
                                     ![r].task_output = ""]
              /\ c.jobs = jobs
    /\ (last.op = "reset_task_values") =>
          /\ last.exc = NoExc
          /\ status(runs[last.run]) = Status.NOT_STARTED
          /\ runs[last.run].log = last.pre.log

\* reset_task_values was just called on a Run that had an exitcode, both
\* dates, an output and a log: the Run is NOT_STARTED and the log is kept.
C22_Witness ==
    /\ last.op = "reset_task_values"
    /\ Terminal(last.pre)
    /\ IsSet(last.pre.task_id)
    /\ IsSet(last.pre.task_start_date)
    /\ IsSet(last.pre.task_end_date)
    /\ last.pre.task_output = "Output"
    /\ runs[last.run].log = <<"a", "\n">>
    /\ status(runs[last.run]) = Status.NOT_STARTED

\* ---------------------------------------------------------------- C23
\* C23: liveness of repair. When sync_with_job is invoked repeatedly on every
\* in-flight Run and the workers are fair, every Run that becomes QUEUED or
\* RUNNING eventually has a task_end_date (SUCCESS, FAILURE, STOPPED or
\* STALE): no Run stays QUEUED or RUNNING forever.
C23_InFlightEventuallyEnds ==
    \A r \in 1..2 :
        InFlight(runs[r]) ~> (Terminal(runs[r]) /\ IsSet(runs[r].task_end_date))

\* sync_with_job has just repaired a RUNNING Run whose worker had died: the
\* job is in the FailedJobRegistry and the Run is now FAILURE with an end
\* date.
C23_Witness ==
    /\ last.op = "sync_with_job"
    /\ status(last.pre) = Status.RUNNING
    /\ last.js = JobStatus.FAILED
    /\ status(runs[last.run]) = Status.FAILURE
    /\ IsSet(runs[last.run].task_end_date)

\* ---------------------------------------------------------------- C24
\* An earlier Run of the project has not ended.
EarlierNotEnded == \E i \in Alive : ~IsSet(runs[i].task_end_date)

WholeSeconds(ticks, n) ==
    IF ticks >= 0
    THEN n * TicksPerSecond <= ticks /\ ticks < (n + 1) * TicksPerSecond
    ELSE (0 - n) * TicksPerSecond <= 0 - ticks
         /\ 0 - ticks < (1 - n) * TicksPerSecond

\* C25: execution_time is None whenever task_start_date or task_end_date is
\* unset or the Run is stale (task_exitcode = 88), and otherwise it is the
\* whole number of seconds from task_start_date to task_end_date: a start at
\* T0 and an end 25 s later with exitcode 0 give 25, and the same dates with
\* exitcode 88 give None. The read changes nothing.
C25_ExecutionTime ==
    /\ \A r \in Alive :
          LET run == runs[r]
              res == execution_time(run)
          IN  IF \/ ~IsSet(run.task_start_date)
                 \/ ~IsSet(run.task_end_date)
                 \/ run.task_exitcode = Some(STALE_EXITCODE)
              THEN res = None
              ELSE /\ IsSet(res)
                   /\ WholeSeconds(run.task_end_date[1]
                                       - run.task_start_date[1], res[1])
    /\ execution_time([NewRun(1) EXCEPT
                           !.task_start_date = Some(0),
                           !.task_end_date = Some(25 * TicksPerSecond),
                           !.task_exitcode = Some(0)]) = Some(25)
    /\ execution_time([NewRun(1) EXCEPT
                           !.task_start_date = Some(0),
                           !.task_end_date = Some(25 * TicksPerSecond),
                           !.task_exitcode = Some(STALE_EXITCODE)]) = None
    /\ (last.op = "execution_time") =>
          /\ runs[last.run] = last.pre
          /\ last.res = execution_time(last.pre)

\* The execution time of a Run that started at T0 and ended 25 seconds and a
\* fraction later was just read as 25.
C25_Witness ==
    /\ last.op = "execution_time"
    /\ last.pre.task_start_date = Some(0)
    /\ last.pre.task_end_date = Some(25 * TicksPerSecond + 1)
    /\ last.pre.task_exitcode = Some(0)
    /\ last.res = Some(25)

\* ---------------------------------------------------------------- C26
\* C26: in asynchronous mode a Run is marked queued only after its job was
\* enqueued. When the enqueue call fails, execute_task_async writes no field
\* and the status stays NOT_STARTED; and start() never leaves a Run QUEUED
\* without the queue having accepted a job for it.
C26_QueuedAfterEnqueue ==
    /\ \A r \in Alive :
          LET c == execute_task_async(Ctx(runs[r], <<0, "">>, FALSE))
          IN  (async /\ ~redis) =>
                  /\ c.exc = ConnectionError
                  /\ c.db = runs
                  /\ c.jobs = jobs
    /\ (last.op = "start" /\ async) =>
          /\ (last.exc # NoExc) => runs[last.run] = last.pre
          /\ (last.exc = ConnectionError) =>
                 /\ last.enq = 1
                 /\ status(runs[last.run]) = Status.NOT_STARTED
          /\ (status(runs[last.run]) = Status.QUEUED
              /\ status(last.pre) = Status.NOT_STARTED) =>
                 /\ last.exc = NoExc
                 /\ last.enq = 1
                 /\ jobs[last.run] = JobStatus.QUEUED

\* start was just called on a Run that may start while Redis does not
\* answer: the enqueue call was made and failed, the Run is as it was,
\* NOT_STARTED, and the queue holds no job for it.
C26_Witness ==
    /\ last.op = "start"
    /\ async
    /\ last.can
    /\ last.enq = 1
    /\ last.exc = ConnectionError
    /\ runs[last.run] = last.pre
    /\ status(runs[last.run]) = Status.NOT_STARTED
    /\ jobs[last.run] = NoJob

\* ---------------------------------------------------------------- C27
\* The Runs whose pipeline body is executing in a worker.
Executing == {r \in RunIds : jobs[r] = JobStatus.STARTED}

\* C27: no two Runs of the same project have their pipeline bodies executing
\* in workers at the same time, under every interleaving of start, worker
\* pick-up, start and end, stop_task and sync_with_job; in particular a later
\* Run is never handed to the queue while the job of an earlier Run that was
\* marked STOPPED or STALE is still executing.
C27_OneBodyAtATime ==
    /\ Cardinality(Executing) <= 1
    /\ \A r \in Alive :
          jobs[r] = JobStatus.QUEUED =>
              \A e \in Executing : ~(e < r /\ e \in Alive)

\* ---------------------------------------------------------------- C28
\* C28: when two callers that each hold their own loaded copy of the same
\* NOT_STARTED Run call start(), at most one of them enqueues a job (or
\* executes the pipeline) for that Run and the other gets an error: a start
\* that hands the Run over finds the stored Run NOT_STARTED.
C28_AtMostOneStart ==
    (last.op = "start" /\ last.enq = 1 /\ last.exc = NoExc) =>
        status(last.pre) = Status.NOT_STARTED

\* ---------------------------------------------------------------- C29
\* The place of a status in the order NOT_STARTED < QUEUED < RUNNING <
\* terminal.
Rank(st) ==
    IF st = Status.NOT_STARTED THEN 0
    ELSE IF st = Status.QUEUED THEN 1
    ELSE IF st = Status.RUNNING THEN 2
    ELSE 3

\* C29: without reset_task_values the status of a Run never moves backward
\* in the order NOT_STARTED < QUEUED < RUNNING < terminal, under any sequence
\* or interleaving of set_task_queued, set_task_started, set_task_ended,
\* set_task_staled, set_task_stopped and stop_task; a terminal Run stays
\* terminal, and a late set_task_queued made after the worker's
\* set_task_started leaves the Run RUNNING.
C29_StatusNeverBackward ==
    [][\A r \in DOMAIN runs :
          /\ Rank(status(runs'[r])) >= Rank(status(runs[r]))
          /\ Terminal(runs[r]) => Terminal(runs'[r])
          /\ (last'.op = "set_task_queued" /\ last'.run = r
              /\ status(runs[r]) = Status.RUNNING)
                 => status(runs'[r]) = Status.RUNNING]_vars

\* A caller that loaded the Run before the worker started it has just
\* called set_task_queued on its instance: the call went through and the
\* stored Run, RUNNING before, is still RUNNING.
C29_Witness ==
    /\ last.op = "set_task_queued"
    /\ last.exc = NoExc
    /\ status(last.pre) = Status.RUNNING
    /\ status(runs[last.run]) = Status.RUNNING
    /\ \E proc \in Processes :
          /\ IsSet(loaded[proc])
          /\ ~IsSet(Instance(proc).task_start_date)
          /\ IsSet(Instance(proc).task_id)

\* ---------------------------------------------------------------- C30
\* The rows of the Run table.
Objects == {runs[i] : i \in {j \in DOMAIN runs : ~runs[j].deleted}}

\* C30: on every state the lifecycle operations reach, the RunQuerySet
\* filters agree with the derived status: a Run is in not_started() iff its
\* status is NOT_STARTED, in queued() iff QUEUED, in running() iff RUNNING, in
\* queued_or_running() iff QUEUED or RUNNING, and in executed() iff its status
\* is SUCCESS, FAILURE, STOPPED or STALE.
C30_FiltersAgreeWithStatus ==
    \A i \in DOMAIN runs :
        ~runs[i].deleted =>
            /\ runs[i] \in not_started(Objects)
                  <=> status(runs[i]) = Status.NOT_STARTED
            /\ runs[i] \in queued(Objects) <=> status(runs[i]) = Status.QUEUED
            /\ runs[i] \in running(Objects) <=> status(runs[i]) = Status.RUNNING
            /\ i \in queued_or_running(runs) <=> InFlight(runs[i])
            /\ runs[i] \in executed(Objects) <=> Terminal(runs[i])

\* One Run was stopped before it had a task_id and is in executed() alone,
\* while the other is RUNNING and in running() and queued_or_running().
C30_Witness ==
    \E i, j \in DOMAIN runs :
        /\ status(runs[i]) = Status.STOPPED
        /\ ~IsSet(runs[i].task_id)
        /\ runs[i] \in executed(Objects)
        /\ runs[i] \notin not_started(Objects)
        /\ status(runs[j]) = Status.RUNNING
        /\ runs[j] \in running(Objects)
        /\ j \in queued_or_running(runs)

============================================================================
